---- MODULE Spec2Model ----
(***************************************************************************)
(* A model of the stock-api backend: the request gate (auth.py), the       *)
(* watchlist handlers and the stock sync and list handlers (main.py), and  *)
(* the periodic sync job (cron_sync.py).                                   *)
(*                                                                         *)
(* The specifications share the variables; each moves its own part:        *)
(*   SpecGate      one request at a time through validate_token_middleware *)
(*   SpecWatchSeq  create/update watchlist requests, one after another     *)
(*   SpecWatch     concurrent create/update watchlist requests, one store  *)
(*                 operation per step                                      *)
(*   SpecStock     sync and list requests over the bar collection          *)
(*   SpecStockConc overlapping sync requests over the bar collection       *)
(*   SpecCron      one run of the periodic sync job (cron_sync.py)         *)
(***************************************************************************)
EXTENDS Integers, Sequences, FiniteSets, TLC

VARIABLES
    ADMIN_API_KEYS,  \* auth.py: the configured key string (environment)
    ADMIN_DATA,      \* auth.py: the configured admin identity (environment)
    gpc,             \* gate: "idle" | "calling" | "handler" | "done"
    greq,            \* gate: the request in flight [path, api_key, auth]
    greply,          \* gate: the identity service's reply, <<>> before it
    guser,           \* gate: request.state.user, <<>> while the attribute is unset
    gresp,           \* gate: the response [status, detail]
    gcalls,          \* gate: identity-service calls made for this request
    greached,        \* gate: call_next was invoked (a route handler ran)
    watchlists,      \* db.watchlists: the documents in insertion order; a
                     \* document's position is its _id
    wreq,            \* the watchlist requests in flight, by request slot
    stocks,          \* db.stocks: the bar documents in insertion order
    sreq,            \* the sync requests in flight, by request slot
    lreq,            \* the list request (GET /stocks) in flight
    CRON_AUTH_TOKEN, \* cron_sync.py: the job's token (its environment)
    cpc,             \* cron job: "start" | "symbols" | "loop" | "done"
    cfetch,          \* cron job: how get_all_unique_symbols ended
                     \* ("none" before it ran, "ok", "failed")
    symbols_to_sync, \* cron job: the list get_all_unique_symbols returned
    crest,           \* cron job: the symbols the for loop has still to visit
    cposts           \* cron job: the sync requests issued, in order

envVars == <<ADMIN_API_KEYS, ADMIN_DATA>>
gateVars == <<gpc, greq, greply, guser, gresp, gcalls, greached>>
watchVars == <<watchlists, wreq>>
stockVars == <<stocks, sreq, lreq>>
cronVars == <<CRON_AUTH_TOKEN, cpc, cfetch, symbols_to_sync, crest, cposts>>

----------------------------------------------------------------------------
(* Bounds *)

\* longest x-api-key header value tried
MaxKeyLen == 2
\* number of distinct user ids the identity service knows
NumUsers == 2
\* watchlist requests handled concurrently
NumSlots == 2
\* watchlists the store may come to hold
MaxLists == 2
\* bars the store may come to hold
MaxBars == 3
\* days the market-data provider has bars for
NumDays == 2
\* highest page number requested
MaxPage == 2
\* largest in-range page size requested
MaxPageSize == 2

----------------------------------------------------------------------------
(* Python values *)

\* Optional[T]: <<>> is None (or an absent header / attribute), <<v>> is v
None == <<>>
Some(v) == <<v>>
IsNone(o) == o = <<>>

\* Strings the code searches in are sequences of characters
KeyChars == {"a", "b", ","}
KeyStrings == UNION {[1..k -> KeyChars] : k \in 0..MaxKeyLen}

\* Python truthiness of a header value: None and "" are falsy
HeaderTruthy(h) == ~IsNone(h) /\ h[1] # <<>>

\* Python's `x in s` for two strings: x occurs in s as a contiguous run
StrContains(s, x) ==
    \E i \in 1..(Len(s) + 1) :
        /\ i + Len(x) - 1 <= Len(s)
        /\ SubSeq(s, i, i + Len(x) - 1) = x

\* An identity (a dict or None): kind "none" is Python None, "empty" is {},
\* "noid" a non-empty dict without "id", "user" a dict with "id"
NoneUser == [kind |-> "none", id |-> 0]
EmptyDict == [kind |-> "empty", id |-> 0]
NoIdDict == [kind |-> "noid", id |-> 0]
UserDict(u) == [kind |-> "user", id |-> u]
Users == 1..NumUsers
Identities == {NoneUser, EmptyDict, NoIdDict} \cup {UserDict(u) : u \in Users}

----------------------------------------------------------------------------
(* The request gate: auth.validate_token_middleware *)

Paths == {"/docs", "/openapi.json", "/redoc", "/health", "/stocks",
          "/stocks/sync", "/watchlist"}

\* the Authorization header: absent, empty, or a bearer credential
AuthHeaders == {None, Some(<<>>), Some(<<"B", "t">>)}
ApiKeyHeaders == {None} \cup {Some(k) : k \in KeyStrings}

Resp(status, detail) == [status |-> status, detail |-> detail]
NoResp == Resp(0, "")

\* (variant: the health probe added to the allow-list)
AllowListWithHealth == {"/docs", "/openapi.json", "/redoc", "/health"}

\* auth.py:21
AllowList == {"/docs", "/openapi.json", "/redoc"}

\* (variant: the admin bypass is never taken)
AdminKeyNeverAccepted(api_key, keys) == FALSE

\* auth.py:27  `api_key and api_key in ADMIN_API_KEYS`, ADMIN_API_KEYS a str
AdminKeyAccepted(api_key, keys) ==
    HeaderTruthy(api_key) /\ StrContains(keys, api_key[1])

\* The identity service's possible replies to GET /api/auth/validateToken.
\* kind "timeout": httpx.TimeoutException; "transport": another
\* httpx.RequestError; "http": a response with a status and a body.
\* body "nojson": response.json() raises; "notdict": JSON that is no object;
\* "dict": an object whose "valid" is true, false or absent, with a "user".
Reply(kind, status, body, valid, user) ==
    [kind |-> kind, status |-> status, body |-> body, valid |-> valid,
     user |-> user]
Replies ==
    {Reply("timeout", 0, "none", "absent", NoneUser),
     Reply("transport", 0, "none", "absent", NoneUser)}
    \cup {Reply("http", s, "none", "absent", NoneUser) : s \in {401, 500}}
    \cup {Reply("http", 200, b, "absent", NoneUser) : b \in {"nojson", "notdict"}}
    \cup {Reply("http", 200, "dict", v, u) :
            v \in {"true", "false", "absent"},
            u \in {NoneUser} \cup {UserDict(i) : i \in Users}}

\* auth.py:39-80: what the gate does with the reply.
\* forward = TRUE: falls through to call_next with request.state.user set.
Verdict(forward, status, detail, user) ==
    [forward |-> forward, status |-> status, detail |-> detail, user |-> user]

\* (variant: a timeout is reported like an invalid token)
ValidateOutcomeTimeout401(r) ==
    CASE r.kind \in {"timeout", "transport"} \/ r.status # 200 ->
            Verdict(FALSE, 401, "Invalid or expired token", None)
      [] r.body # "dict" ->
            Verdict(FALSE, 500, "Internal server error", None)
      [] r.valid # "true" ->
            Verdict(FALSE, 401, "Token validation failed", None)
      [] OTHER ->
            Verdict(TRUE, 0, "", Some(r.user))

ValidateOutcome(r) ==
    CASE r.kind = "timeout" ->
            Verdict(FALSE, 503, "Authentication service timeout", None)
      [] r.kind = "transport" ->
            Verdict(FALSE, 503, "Authentication service error", None)
      [] r.kind = "http" /\ r.status # 200 ->
            Verdict(FALSE, 401, "Invalid or expired token", None)
      [] r.kind = "http" /\ r.status = 200 /\ r.body # "dict" ->
            Verdict(FALSE, 500, "Internal server error", None)
      [] r.kind = "http" /\ r.status = 200 /\ r.body = "dict"
            /\ r.valid # "true" ->
            Verdict(FALSE, 401, "Token validation failed", None)
      [] OTHER ->
            Verdict(TRUE, 0, "", Some(r.user))

\* auth.py:20-37: the part of the middleware before the remote call
GateEnter(path, api_key, auth) ==
    /\ gpc = "idle"
    /\ greq' = [path |-> path, api_key |-> api_key, auth |-> auth]
    /\ greply' = None
    /\ greached' = FALSE
    /\ IF path \in AllowList
       THEN /\ gpc' = "handler"
            /\ guser' = None
            /\ gresp' = NoResp
            /\ gcalls' = 0
       ELSE IF AdminKeyAccepted(api_key, ADMIN_API_KEYS)
       THEN /\ gpc' = "handler"
            /\ guser' = Some(ADMIN_DATA)
            /\ gresp' = NoResp
            /\ gcalls' = 0
       ELSE IF ~HeaderTruthy(auth)
       THEN /\ gpc' = "done"
            /\ guser' = None
            /\ gresp' = Resp(401, "Authorization header missing")
            /\ gcalls' = 0
       ELSE /\ gpc' = "calling"
            /\ guser' = None
            /\ gresp' = NoResp
            /\ gcalls' = 1
    /\ UNCHANGED <<envVars, cronVars, watchVars, stockVars>>

\* auth.py:39-80: the identity service answers (or the call fails)
GateReply(r) ==
    /\ gpc = "calling"
    /\ greply' = Some(r)
    /\ LET v == ValidateOutcome(r) IN
       IF v.forward
       THEN /\ gpc' = "handler"
            /\ guser' = v.user
            /\ gresp' = NoResp
       ELSE /\ gpc' = "done"
            /\ guser' = None
            /\ gresp' = Resp(v.status, v.detail)
    /\ UNCHANGED <<greq, gcalls, greached, envVars, cronVars, watchVars, stockVars>>

\* main.py:283-290  health_check: ping the store, never raise
HealthBody(pingOk) == IF pingOk THEN "healthy" ELSE "unhealthy"

\* auth.py:22,29,83  call_next: the route handler runs.  GET /health is
\* modelled here; the other routes' handlers are the subject of SpecWatch and
\* SpecStock and answer with a status of their own (detail "route").
RouteHandler ==
    /\ gpc = "handler"
    /\ greached' = TRUE
    /\ gpc' = "done"
    /\ IF greq.path = "/health"
       THEN \E pingOk \in BOOLEAN : gresp' = Resp(200, HealthBody(pingOk))
       ELSE gresp' = Resp(200, "route")
    /\ UNCHANGED <<greq, greply, guser, gcalls, envVars, cronVars, watchVars, stockVars>>

\* the response is sent; the gate is ready for the next request
GateFinish ==
    /\ gpc = "done"
    /\ gpc' = "idle"
    /\ greq' = [path |-> "/docs", api_key |-> None, auth |-> None]
    /\ greply' = None
    /\ guser' = None
    /\ gresp' = NoResp
    /\ gcalls' = 0
    /\ greached' = FALSE
    /\ UNCHANGED <<envVars, cronVars, watchVars, stockVars>>

\* auth.py:11-12: the environment the process starts with
AdminKeyConfigs == {<<>>, <<"a", "b">>, <<"a", "b", ",", "b", "a">>}
AdminDataConfigs == {EmptyDict, UserDict(1)}

NextGate ==
    \/ \E p \in Paths, k \in ApiKeyHeaders, a \in AuthHeaders : GateEnter(p, k, a)
    \/ \E r \in Replies : GateReply(r)
    \/ RouteHandler
    \/ GateFinish

----------------------------------------------------------------------------
(* The watchlist handlers: main.create_watchlist, main.update_watchlist *)

Slots == 1..NumSlots
Names == {"a", "b"}
SymbolLists == {<<>>, <<"AAPL">>}
\* watchlist_id path values: 0 is a string ObjectId() rejects (InvalidId),
\* the others are well-formed ids, of a stored document or of none
WatchlistIds == 0..(MaxLists + 1)

\* main.py:185-189  watchlist_doc
Doc(name, symbols, user_id) ==
    [name |-> name, symbols |-> symbols, user_id |-> user_id]
\* main.py:196-201, 240-245, 256  the Watchlist response model
WatchlistOut(id, doc) ==
    [id |-> id, name |-> doc.name, symbols |-> doc.symbols,
     user_id |-> doc.user_id]

\* a request slot: the handler's position and locals, its response
IdleReq ==
    [pc |-> "idle", op |-> "none", user |-> NoneUser, name |-> None,
     symbols |-> None, target |-> 0, resp |-> NoResp, ret |-> None]

\* main.py:181, 212  `not user or "id" not in user`
HasId(user) == user.kind = "user"

\* find_one returns the first matching document, None when there is none
First(S) == IF S = {} THEN None ELSE Some(CHOOSE i \in S : \A j \in S : i <= j)

\* (variant: the name is looked up across all owners)
MatchNameAnyOwner(store, name, user_id) ==
    {i \in DOMAIN store : store[i].name = name}

\* main.py:191, 230-231  the filter {"name": name, "user_id": user_id}
MatchNameOwner(store, name, user_id) ==
    {i \in DOMAIN store : store[i].name = name /\ store[i].user_id = user_id}

\* (variant: the target is looked up by id alone)
MatchIdAnyOwner(store, id, user_id) ==
    {i \in DOMAIN store : i = id}

\* main.py:222  the filter {"_id": obj_id, "user_id": user_id}
MatchIdOwner(store, id, user_id) ==
    {i \in DOMAIN store : i = id /\ store[i].user_id = user_id}

\* (variant: symbols is copied into the update even when it is None)
UpdateDocSymbolsAlways(name, symbols) ==
    [name |-> name,
     symbols |-> IF IsNone(symbols) THEN Some(<<>>) ELSE symbols]

\* main.py:227-236  update_doc: the fields the patch supplies (None: absent)
UpdateDoc(name, symbols) == [name |-> name, symbols |-> symbols]
\* main.py:239  `not update_doc`
UpdateDocEmpty(u) == IsNone(u.name) /\ IsNone(u.symbols)

\* main.py:248-251  {"$set": update_doc} applied to a document
ApplySet(doc, u) ==
    [doc EXCEPT !.name = IF IsNone(u.name) THEN @ ELSE u.name[1],
                !.symbols = IF IsNone(u.symbols) THEN @ ELSE u.symbols[1]]

\* main.py:174-192  create_watchlist up to and including its find_one
CreateStart(s, user, name, symbols) ==
    /\ wreq[s].pc = "idle"
    \* the store's size is bounded: no create that would insert is admitted
    \* once MaxLists documents are stored or about to be
    /\ \/ Len(watchlists) + Cardinality({t \in Slots : wreq[t].pc = "c_insert"})
             < MaxLists
       \/ ~HasId(user)
       \/ ~IsNone(First(MatchNameOwner(watchlists, name, user.id)))
    /\ LET r == [IdleReq EXCEPT !.op = "create", !.user = user,
                                !.name = Some(name), !.symbols = Some(symbols)]
       IN  wreq' = [wreq EXCEPT ![s] =
             IF ~HasId(user)
             THEN [r EXCEPT !.pc = "done",
                            !.resp = Resp(401, "Authentication required")]
             ELSE IF ~IsNone(First(MatchNameOwner(watchlists, name, user.id)))
             THEN [r EXCEPT !.pc = "done",
                            !.resp = Resp(400, "Watchlist with this name already exists")]
             ELSE [r EXCEPT !.pc = "c_insert"]]
    /\ UNCHANGED <<watchlists, envVars, cronVars, gateVars, stockVars>>

\* main.py:194-201  insert_one and the response
CreateInsert(s) ==
    /\ wreq[s].pc = "c_insert"
    /\ LET r == wreq[s]
           doc == Doc(r.name[1], r.symbols[1], r.user.id)
       IN  /\ watchlists' = Append(watchlists, doc)
           /\ wreq' = [wreq EXCEPT ![s] =
                 [r EXCEPT !.pc = "done", !.resp = Resp(200, "created"),
                           !.ret = Some(WatchlistOut(Len(watchlists) + 1, doc))]]
    /\ UNCHANGED <<envVars, cronVars, gateVars, stockVars>>

\* main.py:205-245  update_watchlist up to and including its first find_one,
\* and the local steps that follow it
UpdateStart(s, user, wid, name, symbols) ==
    /\ wreq[s].pc = "idle"
    /\ LET r == [IdleReq EXCEPT !.op = "update", !.user = user, !.target = wid,
                                !.name = name, !.symbols = symbols]
           found == First(MatchIdOwner(watchlists, wid, user.id))
       IN  wreq' = [wreq EXCEPT ![s] =
             IF ~HasId(user)
             THEN [r EXCEPT !.pc = "done",
                            !.resp = Resp(401, "Authentication required")]
             ELSE IF wid = 0
             THEN [r EXCEPT !.pc = "done",
                            !.resp = Resp(400, "Invalid watchlist ID format")]
             ELSE IF IsNone(found)
             THEN [r EXCEPT !.pc = "done",
                            !.resp = Resp(404, "Watchlist not found or you don't have permission to edit it")]
             ELSE IF ~IsNone(name) /\ name[1] # watchlists[found[1]].name
             THEN [r EXCEPT !.pc = "u_namecheck"]
             ELSE IF UpdateDocEmpty(UpdateDoc(name, symbols))
             THEN [r EXCEPT !.pc = "done", !.resp = Resp(200, "unchanged"),
                            !.ret = Some(WatchlistOut(found[1], watchlists[found[1]]))]
             ELSE [r EXCEPT !.pc = "u_write"]]
    /\ UNCHANGED <<watchlists, envVars, cronVars, gateVars, stockVars>>

\* main.py:230-233  the second find_one: is the new name taken?
UpdateNameCheck(s) ==
    /\ wreq[s].pc = "u_namecheck"
    /\ LET r == wreq[s] IN
       wreq' = [wreq EXCEPT ![s] =
             IF ~IsNone(First(MatchNameOwner(watchlists, r.name[1], r.user.id)))
             THEN [r EXCEPT !.pc = "done",
                            !.resp = Resp(409, "Watchlist with this name already exists")]
             ELSE [r EXCEPT !.pc = "u_write"]]
    /\ UNCHANGED <<watchlists, envVars, cronVars, gateVars, stockVars>>

\* main.py:248-251  update_one({"_id": obj_id}, {"$set": update_doc})
UpdateWrite(s) ==
    /\ wreq[s].pc = "u_write"
    /\ LET r == wreq[s] IN
       /\ watchlists' = [watchlists EXCEPT ![r.target] =
                            ApplySet(@, UpdateDoc(r.name, r.symbols))]
       /\ wreq' = [wreq EXCEPT ![s] = [r EXCEPT !.pc = "u_fetch"]]
    /\ UNCHANGED <<envVars, cronVars, gateVars, stockVars>>

\* main.py:254-256  find_one({"_id": obj_id}) and the response
UpdateFetch(s) ==
    /\ wreq[s].pc = "u_fetch"
    /\ LET r == wreq[s] IN
       wreq' = [wreq EXCEPT ![s] =
             [r EXCEPT !.pc = "done", !.resp = Resp(200, "updated"),
                       !.ret = Some(WatchlistOut(r.target, watchlists[r.target]))]]
    /\ UNCHANGED <<watchlists, envVars, cronVars, gateVars, stockVars>>

\* the response is sent; the slot is free for the next request
WatchRespond(s) ==
    /\ wreq[s].pc = "done"
    /\ wreq' = [wreq EXCEPT ![s] = IdleReq]
    /\ UNCHANGED <<watchlists, envVars, cronVars, gateVars, stockVars>>

OptNames == {None} \cup {Some(n) : n \in Names}
OptSymbolLists == {None} \cup {Some(l) : l \in SymbolLists}

\* One request at a time (slot 1), every kind of caller, id and patch
NextWatchSeq ==
    \/ \E u \in Identities, n \in Names, l \in SymbolLists :
          CreateStart(1, u, n, l)
    \/ CreateInsert(1)
    \/ \E u \in Identities, w \in WatchlistIds,
          n \in OptNames, l \in OptSymbolLists :
          UpdateStart(1, u, w, n, l)
    \/ UpdateNameCheck(1)
    \/ UpdateWrite(1)
    \/ UpdateFetch(1)
    \/ WatchRespond(1)

\* Concurrent requests of authenticated callers: creates, and updates of
\* well-formed ids that rename or supply nothing
NextWatch ==
    \/ \E s \in Slots, u \in Users, n \in Names :
          CreateStart(s, UserDict(u), n, <<>>)
    \/ \E s \in Slots : CreateInsert(s)
    \/ \E s \in Slots, u \in Users, w \in 1..MaxLists, n \in OptNames :
          UpdateStart(s, UserDict(u), w, n, None)
    \/ \E s \in Slots : UpdateNameCheck(s)
    \/ \E s \in Slots : UpdateWrite(s)
    \/ \E s \in Slots : UpdateFetch(s)
    \/ \E s \in Slots : WatchRespond(s)

----------------------------------------------------------------------------
(* The stock handlers: main.sync_stock, main.get_stocks *)

\* main.py:98  page_size: Query(10, ge=1, le=5000)
PAGE_SIZE_MAX == 5000

Symbols == {"AAPL", "aapl"}
\* str.upper() on the symbols of the model
Upper(sym) == IF sym = "aapl" THEN "AAPL" ELSE sym
\* the order of the symbols as strings: upper case sorts before lower case
SymbolRank(sym) == IF sym = "AAPL" THEN 1 ELSE 2

Days == 1..NumDays
\* the index of a row of the provider's frame: a day and a time of day
Timestamp(day, hour) == [day |-> day, hour |-> hour]
\* main.py:77  index.strftime('%Y-%m-%d'): the day, the time of day dropped
Strftime(ts) == ts.day

\* the provider's columns for one bar
RowValues ==
    {[Open |-> 10, High |-> 12, Low |-> 9, Close |-> 11, Volume |-> 100],
     [Open |-> 20, High |-> 22, Low |-> 19, Close |-> 21, Volume |-> 200]}
Row(day, v) ==
    [ts |-> Timestamp(day, 0), Open |-> v.Open, High |-> v.High,
     Low |-> v.Low, Close |-> v.Close, Volume |-> v.Volume]
Rows == {Row(d, v) : d \in Days, v \in RowValues}
\* main.py:70  what yf.download returns: a frame of daily rows, oldest first
Series ==
    {sq \in UNION {[1..k -> Rows] : k \in 0..NumDays} :
        \A i \in 1..(Len(sq) - 1) : sq[i].ts.day < sq[i + 1].ts.day}
\* yf.download raises (ok = FALSE) or returns a frame
Downloads ==
    {[ok |-> FALSE, data |-> <<>>]} \cup {[ok |-> TRUE, data |-> sq] : sq \in Series}

\* main.py:75-83  document
Document(symbol, row) ==
    [symbol |-> symbol, date |-> Strftime(row.ts), open |-> row.Open,
     high |-> row.High, low |-> row.Low, close |-> row.Close,
     volume |-> row.Volume]

\* main.py:85  the upsert's filter {"symbol": ..., "date": ...}
MatchBar(store, symbol, date) ==
    {i \in DOMAIN store : store[i].symbol = symbol /\ store[i].date = date}

\* main.py:86  {"$set": document} applied to a stored bar
SetBar(old, document) ==
    [old EXCEPT !.symbol = document.symbol, !.date = document.date,
                !.open = document.open, !.high = document.high,
                !.low = document.low, !.close = document.close,
                !.volume = document.volume]

\* a raised exception: its class, its status (HTTPException), its message
Exc(type, status, detail) ==
    [type |-> type, status |-> status, detail |-> detail]

\* main.py:90-91  `except Exception as e: raise HTTPException(500, str(e))`
\* HTTPException is an Exception, so the handler's own 404 is caught too
SyncCatch(e) == Resp(500, e.detail)

\* main.py:167-170  `except HTTPException: raise`, then `except Exception`
ListCatch(e) ==
    IF e.type = "HTTPException" THEN Resp(e.status, e.detail)
    ELSE Resp(500, "Error fetching stocks")

\* a sync request slot; got: what the download gave ("raise", "empty", "rows")
IdleSync ==
    [pc |-> "idle", symbol |-> "", got |-> "none", rows |-> <<>>,
     resp |-> NoResp]

RECURSIVE PendingRows(_)
\* rows the sync requests in flight have still to upsert
PendingRows(S) ==
    IF S = {} THEN 0
    ELSE LET t == CHOOSE x \in S : TRUE
         IN  Len(sreq[t].rows) + PendingRows(S \ {t})

\* rows of a frame that no stored bar matches
NewRows(symbol, data) ==
    {i \in DOMAIN data :
        MatchBar(stocks, symbol, Strftime(data[i].ts)) = {}}

\* main.py:68-72  sync_stock: the download and the empty check
SyncStart(s, symbol, dl) ==
    /\ sreq[s].pc = "idle"
    \* the store's size is bounded: no sync that may insert beyond MaxBars
    /\ Len(stocks) + PendingRows(Slots) + Cardinality(NewRows(symbol, dl.data))
          <= MaxBars
    /\ LET r == [IdleSync EXCEPT !.symbol = symbol] IN
       sreq' = [sreq EXCEPT ![s] =
          IF ~dl.ok
          THEN [r EXCEPT !.pc = "done", !.got = "raise",
                         !.resp = SyncCatch(Exc("Exception", 0, "download failed"))]
          ELSE IF dl.data = <<>>
          THEN [r EXCEPT !.pc = "done", !.got = "empty",
                         !.resp = SyncCatch(Exc("HTTPException", 404,
                                                "Stock data not found"))]
          ELSE [r EXCEPT !.pc = "s_upsert", !.got = "rows", !.rows = dl.data]]
    /\ UNCHANGED <<stocks, lreq, envVars, cronVars, gateVars, watchVars>>

\* the loop moves to the next row, or returns after the last (main.py:89)
SyncAdvance(r) ==
    IF Tail(r.rows) = <<>>
    THEN [r EXCEPT !.pc = "done", !.rows = <<>>, !.resp = Resp(200, "done")]
    ELSE [r EXCEPT !.pc = "s_upsert", !.rows = Tail(r.rows)]

\* main.py:74-88  one update_one(..., upsert=True): the store looks for a
\* matching bar and sets it; with none it goes on to insert (SyncInsert).
\* A store error (storeOk = FALSE) ends the request with the rows so far kept.
SyncUpsert(s, storeOk) ==
    /\ sreq[s].pc = "s_upsert"
    /\ LET r == sreq[s]
           doc == Document(r.symbol, Head(r.rows))
           m == First(MatchBar(stocks, r.symbol, doc.date))
       IN  IF ~storeOk
           THEN /\ sreq' = [sreq EXCEPT ![s] =
                     [r EXCEPT !.pc = "done",
                               !.resp = SyncCatch(Exc("Exception", 0, "store error"))]]
                /\ stocks' = stocks
           ELSE IF ~IsNone(m)
           THEN /\ stocks' = [stocks EXCEPT ![m[1]] = SetBar(@, doc)]
                /\ sreq' = [sreq EXCEPT ![s] = SyncAdvance(r)]
           ELSE /\ stocks' = stocks
                /\ sreq' = [sreq EXCEPT ![s] = [r EXCEPT !.pc = "s_insert"]]
    /\ UNCHANGED <<lreq, envVars, cronVars, gateVars, watchVars>>

\* main.py:84-88  the upsert found no match: the document is inserted
SyncInsert(s) ==
    /\ sreq[s].pc = "s_insert"
    /\ LET r == sreq[s] IN
       /\ stocks' = Append(stocks, Document(r.symbol, Head(r.rows)))
       /\ sreq' = [sreq EXCEPT ![s] = SyncAdvance(r)]
    /\ UNCHANGED <<lreq, envVars, cronVars, gateVars, watchVars>>

\* the response is sent; the slot is free for the next request
SyncRespond(s) ==
    /\ sreq[s].pc = "done"
    /\ sreq' = [sreq EXCEPT ![s] = IdleSync]
    /\ UNCHANGED <<stocks, lreq, envVars, cronVars, gateVars, watchVars>>

\* main.py:119
ValidSortFields == {"date", "symbol", "open", "high", "low", "close", "volume"}
\* main.py:127
ValidSortOrders == {"asc", "desc"}

\* main.py:114-116  filter_query: `if symbol:` then symbol.upper()
FilterQuery(symbol) ==
    IF ~IsNone(symbol) /\ symbol[1] # "" THEN Some(Upper(symbol[1])) ELSE None
\* the stored bars filter_query matches
Matching(store, fq) ==
    {i \in DOMAIN store : IsNone(fq) \/ store[i].symbol = fq[1]}

\* main.py:140  math.ceil(total / page_size) if total > 0 else 0
TotalPages(total, page_size) ==
    IF total > 0 THEN (total + page_size - 1) \div page_size ELSE 0

\* the value a bar is sorted on
SortKey(doc, sort_by) ==
    IF sort_by = "symbol" THEN SymbolRank(doc.symbol) ELSE doc[sort_by]
\* main.py:146-151  .sort(sort_by, sort_direction): the orders of the matching
\* bars the store may return (bars that tie come in either order)
SortedOrders(store, S, sort_by, sort_order) ==
    {o \in [1..Cardinality(S) -> S] :
        /\ \A i, j \in 1..Cardinality(S) : i # j => o[i] # o[j]
        /\ \A i \in 1..(Cardinality(S) - 1) :
              IF sort_order = "asc"
              THEN SortKey(store[o[i]], sort_by) <= SortKey(store[o[i + 1]], sort_by)
              ELSE SortKey(store[o[i]], sort_by) >= SortKey(store[o[i + 1]], sort_by)}
\* main.py:151  .skip(skip).limit(page_size)
SkipLimit(o, skip, limit) ==
    [k \in 1..(IF Len(o) - skip < 0 THEN 0
               ELSE IF Len(o) - skip < limit THEN Len(o) - skip ELSE limit)
        |-> o[skip + k]]

\* Python values handed to a pydantic model
PyList(items) == [type |-> "list", items |-> items]
\* models.py:28-37  StockRecord(**stock): every field is required
StockRecordAccepts(doc) ==
    DOMAIN doc = {"symbol", "date", "open", "high", "low", "close", "volume"}
\* models.py:53-60, 66  the field `data: StockHistoryRecord` takes an
\* instance of the model or a mapping with its fields
StockHistoryRecordAccepts(v) ==
    \/ v.type = "StockHistoryRecord"
    \/ /\ v.type = "dict"
       /\ {"open", "close", "high", "low", "volume", "date", "symbol"}
             \subseteq v.keys

\* the list request; rows: the handler's local `stocks` (the page read)
IdleList ==
    [pc |-> "idle", symbol |-> None, page |-> 1, page_size |-> 1,
     sort_by |-> "date", sort_order |-> "desc", total |-> 0,
     total_pages |-> 0, rows |-> <<>>, resp |-> NoResp, out |-> None]

\* main.py:94-143  get_stocks: parameter validation, count_documents
ListStart(symbol, page, page_size, sort_by, sort_order) ==
    /\ lreq.pc = "idle"
    /\ LET r == [IdleList EXCEPT !.symbol = symbol, !.page = page,
                                 !.page_size = page_size, !.sort_by = sort_by,
                                 !.sort_order = sort_order]
           total == Cardinality(Matching(stocks, FilterQuery(symbol)))
       IN  lreq' =
             IF page < 1 \/ page_size < 1 \/ page_size > PAGE_SIZE_MAX
             THEN [r EXCEPT !.pc = "done", !.resp = Resp(422, "validation error")]
             ELSE IF sort_by \notin ValidSortFields
             THEN [r EXCEPT !.pc = "done",
                            !.resp = ListCatch(Exc("HTTPException", 400,
                                                   "Invalid sort_by field"))]
             ELSE IF sort_order \notin ValidSortOrders
             THEN [r EXCEPT !.pc = "done",
                            !.resp = ListCatch(Exc("HTTPException", 400,
                                                   "Invalid sort_order"))]
             ELSE [r EXCEPT !.pc = "l_find", !.total = total,
                            !.total_pages = TotalPages(total, page_size)]
    /\ UNCHANGED <<stocks, sreq, envVars, cronVars, gateVars, watchVars>>

\* main.py:145-170  the query, the StockRecord models, the response model
ListFind ==
    /\ lreq.pc = "l_find"
    /\ \E o \in SortedOrders(stocks, Matching(stocks, FilterQuery(lreq.symbol)),
                             lreq.sort_by, lreq.sort_order) :
         LET ids == SkipLimit(o, (lreq.page - 1) * lreq.page_size, lreq.page_size)
             data == [k \in DOMAIN ids |-> stocks[ids[k]]]
         IN  lreq' =
               IF /\ \A k \in DOMAIN data : StockRecordAccepts(data[k])
                  /\ StockHistoryRecordAccepts(PyList(data))
               THEN [lreq EXCEPT !.pc = "done", !.rows = data,
                                 !.resp = Resp(200, "ok"),
                                 !.out = Some([data |-> data,
                                               total |-> lreq.total,
                                               page |-> lreq.page,
                                               page_size |-> lreq.page_size,
                                               total_pages |-> lreq.total_pages])]
               ELSE [lreq EXCEPT !.pc = "done", !.rows = data,
                                 !.resp = ListCatch(Exc("ValidationError", 0,
                                                        "validation error"))]
    /\ UNCHANGED <<stocks, sreq, envVars, cronVars, gateVars, watchVars>>

\* the response is sent
ListRespond ==
    /\ lreq.pc = "done"
    /\ lreq' = IdleList
    /\ UNCHANGED <<stocks, sreq, envVars, cronVars, gateVars, watchVars>>

OptSymbols == {None} \cup {Some(y) : y \in Symbols}
SortFieldInputs == {"date", "symbol", "bogus"}
SortOrderInputs == {"asc", "desc", "bogus"}
PageInputs == 0..MaxPage
PageSizeInputs == (0..MaxPageSize) \cup {PAGE_SIZE_MAX + 1}

\* Sync and list requests, one request at a time
NextStock ==
    \/ \E y \in Symbols, dl \in Downloads :
          lreq.pc = "idle" /\ SyncStart(1, y, dl)
    \/ \E ok \in BOOLEAN : SyncUpsert(1, ok)
    \/ SyncInsert(1)
    \/ SyncRespond(1)
    \/ \E y \in OptSymbols, pg \in PageInputs, sz \in PageSizeInputs,
          f \in SortFieldInputs, d \in SortOrderInputs :
          sreq[1].pc = "idle" /\ ListStart(y, pg, sz, f, d)
    \/ ListFind
    \/ ListRespond

\* Sync requests that overlap: every slot may hold a request in flight
NextStockConc ==
    \/ \E s \in Slots, y \in Symbols, dl \in Downloads : SyncStart(s, y, dl)
    \/ \E s \in Slots, ok \in BOOLEAN : SyncUpsert(s, ok)
    \/ \E s \in Slots : SyncInsert(s)
    \/ \E s \in Slots : SyncRespond(s)

----------------------------------------------------------------------------
(* The periodic sync job: cron_sync.main *)

\* cron_sync.py:20  os.getenv("ADMIN_API_KEYS"): unset, empty, one key, a
\* comma-separated list of keys
CronTokens == {None, Some(<<>>), Some(<<"a">>), Some(<<"a", ",", "b">>)}

\* cron_sync.py:33  db.stocks.distinct("symbol"): each symbol of the
\* collection once, in an order the store chooses
DistinctSymbols(store) ==
    LET S == {store[i].symbol : i \in DOMAIN store} IN
    {q \in [1..Cardinality(S) -> S] :
        \A i, j \in 1..Cardinality(S) : i # j => q[i] # q[j]}

\* the lists of symbols distinct may return
SymbolOrders == UNION {[1..k -> Symbols] : k \in 0..Cardinality(Symbols)}

\* cron_sync.py:26-38  get_all_unique_symbols: the result of distinct, or
\* [] when the connection or the query raised
GetAllUniqueSymbols(ok, results) == IF ok THEN results ELSE <<>>

\* how one call of sync_stock_data ends: the response is a success, an
\* error status (raise_for_status), the transport failed, anything else
CronOutcomes == {"ok", "HTTPStatusError", "RequestError", "Exception"}

\* cron_sync.py:45-51  the request sync_stock_data posts to /stocks/sync
SyncPost(symbol, apikey, outcome) ==
    [symbol |-> symbol, api_key |-> apikey, period |-> "5d",
     outcome |-> outcome]

\* a sync_stock_data that posts again after a failure
SyncStockDataRetry(posts, symbol, apikey, outcome) ==
    IF outcome = "ok"
    THEN Append(posts, SyncPost(symbol, apikey, outcome))
    ELSE Append(Append(posts, SyncPost(symbol, apikey, outcome)),
                SyncPost(symbol, apikey, outcome))

\* cron_sync.py:41-63  sync_stock_data: one POST; every exception is
\* logged and swallowed
SyncStockData(posts, symbol, apikey, outcome) ==
    Append(posts, SyncPost(symbol, apikey, outcome))

\* cron_sync.py:70-74  main: without a token the run is aborted
CronStart ==
    /\ cpc = "start"
    /\ cpc' = IF HeaderTruthy(CRON_AUTH_TOKEN) THEN "symbols" ELSE "done"
    /\ UNCHANGED <<CRON_AUTH_TOKEN, cfetch, symbols_to_sync, crest, cposts,
                   envVars, gateVars, watchVars, stockVars>>

\* cron_sync.py:76-80  main: the symbols are read; with none the run ends
CronGetSymbols(ok, results) ==
    /\ cpc = "symbols"
    /\ results \in DistinctSymbols(stocks)
    /\ LET got == GetAllUniqueSymbols(ok, results) IN
       /\ symbols_to_sync' = got
       /\ crest' = got
       /\ cpc' = IF got = <<>> THEN "done" ELSE "loop"
    /\ cfetch' = IF ok THEN "ok" ELSE "failed"
    /\ UNCHANGED <<CRON_AUTH_TOKEN, cposts, envVars, gateVars, watchVars,
                   stockVars>>

\* cron_sync.py:84-87  main: one turn of the for loop
CronSync(outcome) ==
    /\ cpc = "loop"
    /\ cposts' = SyncStockData(cposts, Head(crest), CRON_AUTH_TOKEN[1], outcome)
    /\ crest' = Tail(crest)
    /\ cpc' = IF Tail(crest) = <<>> THEN "done" ELSE "loop"
    /\ UNCHANGED <<CRON_AUTH_TOKEN, cfetch, symbols_to_sync, envVars,
                   gateVars, watchVars, stockVars>>

\* One run of the job
NextCron ==
    \/ CronStart
    \/ \E ok \in BOOLEAN, results \in SymbolOrders :
          CronGetSymbols(ok, results)
    \/ \E outcome \in CronOutcomes : CronSync(outcome)

----------------------------------------------------------------------------
(* Specifications *)

vars == <<envVars, gateVars, watchVars, stockVars, cronVars>>

\* the gate, one request at a time, with no watchlist traffic
InitGate ==
    /\ ADMIN_API_KEYS \in AdminKeyConfigs
    /\ ADMIN_DATA \in AdminDataConfigs
    /\ gpc = "idle"
    /\ greq = [path |-> "/docs", api_key |-> None, auth |-> None]
    /\ greply = None
    /\ guser = None
    /\ gresp = NoResp
    /\ gcalls = 0
    /\ greached = FALSE
    /\ watchlists = <<>>
    /\ wreq = [s \in Slots |-> IdleReq]
    /\ stocks = <<>>
    /\ sreq = [s \in Slots |-> IdleSync]
    /\ lreq = IdleList
    /\ CRON_AUTH_TOKEN = None
    /\ cpc = "start"
    /\ cfetch = "none"
    /\ symbols_to_sync = <<>>
    /\ crest = <<>>
    /\ cposts = <<>>

SpecGate == InitGate /\ [][NextGate]_vars

\* the application after start-up: the default environment, empty
\* collections, no request in flight
InitApp ==
    /\ ADMIN_API_KEYS = <<>>
    /\ ADMIN_DATA = EmptyDict
    /\ gpc = "idle"
    /\ greq = [path |-> "/docs", api_key |-> None, auth |-> None]
    /\ greply = None
    /\ guser = None
    /\ gresp = NoResp
    /\ gcalls = 0
    /\ greached = FALSE
    /\ watchlists = <<>>
    /\ wreq = [s \in Slots |-> IdleReq]
    /\ stocks = <<>>
    /\ sreq = [s \in Slots |-> IdleSync]
    /\ lreq = IdleList
    /\ CRON_AUTH_TOKEN = None
    /\ cpc = "start"
    /\ cfetch = "none"
    /\ symbols_to_sync = <<>>
    /\ crest = <<>>
    /\ cposts = <<>>

\* the watchlist handlers under concurrent requests the gate has forwarded
SpecWatch == InitApp /\ [][NextWatch]_vars

\* the watchlist handlers, one request after another
SpecWatchSeq == InitApp /\ [][NextWatchSeq]_vars

\* the stock handlers over an initially empty bar collection
SpecStock == InitApp /\ [][NextStock]_vars

\* the sync handler under overlapping sync requests
SpecStockConc == InitApp /\ [][NextStockConc]_vars

\* bar collections the job may find: up to MaxBars bars of any symbols,
\* as sync requests have stored them
CronStores ==
    {[i \in DOMAIN q |->
         Document(q[i], Row(((i - 1) % NumDays) + 1,
                            CHOOSE v \in RowValues : v.Open = 10))] :
       q \in UNION {[1..k -> Symbols] : k \in 0..MaxBars}}

\* the job is started with its environment, over a bar collection that
\* earlier sync requests have filled; the application is idle
InitCron ==
    /\ ADMIN_API_KEYS = <<>>
    /\ ADMIN_DATA = EmptyDict
    /\ gpc = "idle"
    /\ greq = [path |-> "/docs", api_key |-> None, auth |-> None]
    /\ greply = None
    /\ guser = None
    /\ gresp = NoResp
    /\ gcalls = 0
    /\ greached = FALSE
    /\ watchlists = <<>>
    /\ wreq = [s \in Slots |-> IdleReq]
    /\ stocks \in CronStores
    /\ sreq = [s \in Slots |-> IdleSync]
    /\ lreq = IdleList
    /\ CRON_AUTH_TOKEN \in CronTokens
    /\ cpc = "start"
    /\ cfetch = "none"
    /\ symbols_to_sync = <<>>
    /\ crest = <<>>
    /\ cposts = <<>>

\* one run of the job. Every step of the script returns or raises: the
\* store client is created with serverSelectionTimeoutMS=5000
\* (cron_sync.py:31) and the POST with timeout=30.0 (cron_sync.py:55), so
\* a step that can be taken is taken.
SpecCron == InitCron /\ [][NextCron]_vars /\ WF_vars(NextCron)

----------------------------------------------------------------------------
(* Claims about the gate, checked under SpecGate *)

\* the request in flight has been decided: forwarded or rejected
Decided == gpc \in {"handler", "done"}
\* the gate forwarded the request to its route handler
Forwarded == gpc = "handler" \/ (gpc = "done" /\ greached)
\* the gate answered the request itself
Rejected == gpc = "done" /\ ~greached
\* the admin bypass: forwarded on the x-api-key header, no remote call
TookBypass ==
    /\ Forwarded
    /\ greq.path \notin AllowList
    /\ gcalls = 0

\* The configured admin keys as a set: the comma-separated, non-empty fields
\* of the configured key string
ConfiguredKeys(keys) ==
    {SubSeq(keys, p[1], p[2]) :
        p \in {q \in (1..Len(keys)) \X (1..Len(keys)) :
                 /\ q[1] <= q[2]
                 /\ \A n \in q[1]..q[2] : keys[n] # ","
                 /\ (q[1] = 1 \/ keys[q[1] - 1] = ",")
                 /\ (q[2] = Len(keys) \/ keys[q[2] + 1] = ",")}}

\* C3: the gate takes the admin bypass only when the x-api-key value equals
\* one of the configured admin keys; a value that is not a member of the
\* configured key set never takes the bypass.
C3_BypassOnlyForConfiguredKey ==
    TookBypass =>
        /\ ~IsNone(greq.api_key)
        /\ greq.api_key[1] \in ConfiguredKeys(ADMIN_API_KEYS)

\* C4 as stated: a request with neither an admin key nor a bearer header to
\* GET /health or GET /stocks is not rejected by the gate; it reaches its
\* route handler, and GET /health answers healthy or unhealthy, not 401.
C4_OpenRoutesNotGated ==
    (/\ gpc = "done"
     /\ greq.path \in {"/health", "/stocks"}
     /\ IsNone(greq.api_key)
     /\ IsNone(greq.auth))
    => /\ greached
       /\ gresp.status # 401
       /\ greq.path = "/health" => gresp.detail \in {"healthy", "unhealthy"}

\* C4 amended: such a request is rejected by the gate with 401 and does not
\* reach its route handler (only the documentation paths are forwarded
\* without a credential); GET /health, once the gate forwards it, answers
\* healthy or unhealthy with status 200.
C4_OpenRoutesGated ==
    /\ (/\ gpc = "done"
        /\ greq.path \in {"/health", "/stocks"}
        /\ IsNone(greq.api_key)
        /\ IsNone(greq.auth))
       => /\ ~greached
          /\ gresp = Resp(401, "Authorization header missing")
    /\ (gpc = "done" /\ greached /\ greq.path = "/health")
       => /\ gresp.status = 200
          /\ gresp.detail \in {"healthy", "unhealthy"}
    /\ (Forwarded /\ IsNone(greq.api_key) /\ IsNone(greq.auth))
       => greq.path \in {"/docs", "/openapi.json", "/redoc"}

\* GET /health without any credential was answered 401 by the gate
C4_Witness ==
    /\ gpc = "done"
    /\ greq.path = "/health"
    /\ IsNone(greq.api_key)
    /\ IsNone(greq.auth)
    /\ gresp.status = 401
    /\ ~greached

\* C6: for a path outside the allow-list the gate ends in exactly one
\* outcome, by the table: accepted admin key -> forwarded with the admin
\* identity; else no Authorization header -> 401; else timeout -> 503;
\* transport failure -> 503; non-200, or 200 with valid false or absent ->
\* 401; 200 with valid = true -> forwarded with the returned user; any other
\* failure while validating -> 500.  A timeout is never a 401 and a rejected
\* request never reaches a route handler.
C6_GateDecisionTable ==
    (Decided /\ greq.path \notin AllowList) =>
        LET accepted ==
                /\ ~IsNone(greq.api_key)
                /\ greq.api_key[1] # <<>>
                /\ StrContains(ADMIN_API_KEYS, greq.api_key[1])
            hasAuth == ~IsNone(greq.auth) /\ greq.auth[1] # <<>>
            r == greply[1]
        IN  /\ Forwarded # Rejected
            /\ accepted =>
                 Forwarded /\ guser = Some(ADMIN_DATA) /\ IsNone(greply)
            /\ (~accepted /\ ~hasAuth) =>
                 Rejected /\ gresp.status = 401 /\ IsNone(greply)
            /\ (~accepted /\ hasAuth) =>
                 /\ ~IsNone(greply)
                 /\ r.kind = "timeout" => Rejected /\ gresp.status = 503
                 /\ r.kind = "transport" => Rejected /\ gresp.status = 503
                 /\ (r.kind = "http" /\ r.status # 200) =>
                        Rejected /\ gresp.status = 401
                 /\ (r.kind = "http" /\ r.status = 200 /\ r.body = "dict"
                        /\ r.valid \in {"false", "absent"}) =>
                        Rejected /\ gresp.status = 401
                 /\ (r.kind = "http" /\ r.status = 200 /\ r.body = "dict"
                        /\ r.valid = "true") =>
                        Forwarded /\ guser = Some(r.user)
                 /\ (r.kind = "http" /\ r.status = 200 /\ r.body # "dict") =>
                        Rejected /\ gresp.status = 500
            /\ Rejected => gresp.status \in {401, 503, 500}

\* a bearer request whose validation call timed out was answered 503
C6_Witness ==
    /\ gpc = "done"
    /\ greq.path \notin AllowList
    /\ ~IsNone(greply)
    /\ greply[1].kind = "timeout"
    /\ gresp.status = 503
    /\ ~greached

\* C7: the identity service is never called for a request that lacks both
\* an admin key and a bearer header, nor for one that carries a valid admin
\* key (with or without a bearer header); it is called only for requests
\* with an Authorization header and no accepted admin key.
C7_IdentityServiceCalls ==
    /\ gcalls \in {0, 1}
    /\ (gpc # "idle" /\ IsNone(greq.api_key) /\ IsNone(greq.auth))
          => gcalls = 0
    /\ (/\ gpc # "idle"
        /\ ~IsNone(greq.api_key)
        /\ greq.api_key[1] \in ConfiguredKeys(ADMIN_API_KEYS))
          => gcalls = 0
    /\ gcalls > 0 =>
          /\ ~IsNone(greq.auth)
          /\ ~(/\ ~IsNone(greq.api_key)
               /\ greq.api_key[1] # <<>>
               /\ StrContains(ADMIN_API_KEYS, greq.api_key[1]))
    /\ (gpc = "calling") = (gcalls = 1 /\ IsNone(greply))

\* a request with a configured admin key and a bearer header was forwarded
\* without a call to the identity service
C7_Witness ==
    /\ Forwarded
    /\ ~IsNone(greq.api_key)
    /\ greq.api_key[1] \in ConfiguredKeys(ADMIN_API_KEYS)
    /\ ~IsNone(greq.auth)
    /\ greq.auth[1] # <<>>
    /\ greq.path \notin AllowList
    /\ gcalls = 0

----------------------------------------------------------------------------
(* Claims about the watchlist handlers *)

\* some stored watchlist has this name and this owner
Stored(name, user_id) ==
    \E i \in DOMAIN watchlists :
        watchlists[i].name = name /\ watchlists[i].user_id = user_id

\* C1 (SpecWatch): no two stored watchlists have both the same name and the
\* same owner, after any interleaving of create and update requests whose
\* existence check and write are separate store operations.
C1_UniqueNamePerOwner ==
    \A i, j \in DOMAIN watchlists :
        i # j => ~(/\ watchlists[i].name = watchlists[j].name
                   /\ watchlists[i].user_id = watchlists[j].user_id)

\* C8 (SpecWatchSeq): a create by owner u with name n, handled while a
\* watchlist that an earlier create stored under (n, u) is in the store, is
\* answered 400 and the store is unchanged; a create with a name the caller
\* does not hold, whoever else holds it, succeeds and adds exactly one
\* watchlist, owned by the caller.
C8_CreateConflict ==
    [][\A s \in Slots :
        LET r == wreq[s]
            q == wreq'[s]
        IN  /\ (r.pc = "idle" /\ q.op = "create" /\ q.user.kind = "user") =>
                /\ watchlists' = watchlists
                /\ IF Stored(q.name[1], q.user.id)
                   THEN q.pc = "done" /\ q.resp.status = 400 /\ IsNone(q.ret)
                   ELSE q.pc = "c_insert"
            /\ (r.pc = "c_insert" /\ q # r) =>
                /\ watchlists' =
                     Append(watchlists, Doc(r.name[1], r.symbols[1], r.user.id))
                /\ q.pc = "done"
                /\ q.resp.status = 200
                /\ q.ret = Some([id |-> Len(watchlists) + 1, name |-> r.name[1],
                                 symbols |-> r.symbols[1], user_id |-> r.user.id])
      ]_vars

\* a second create of (n, u) was refused while another owner v holds n too
C8_Witness ==
    \E s \in Slots, v \in Users :
        /\ wreq[s].pc = "done"
        /\ wreq[s].op = "create"
        /\ wreq[s].resp.status = 400
        /\ Stored(wreq[s].name[1], wreq[s].user.id)
        /\ v # wreq[s].user.id
        /\ Stored(wreq[s].name[1], v)
        /\ Len(watchlists) = 2

\* C9 (SpecWatchSeq): an update whose well-formed target id is not a
\* watchlist owned by the caller gets the same 404 response whether the id
\* belongs to another owner or to no watchlist, and the store is unchanged,
\* whatever the patch supplies.
C9_UpdateNotOwned ==
    [][\A s \in Slots :
        LET r == wreq[s]
            q == wreq'[s]
        IN  (/\ r.pc = "idle"
             /\ q.op = "update"
             /\ q.user.kind = "user"
             /\ q.target # 0
             /\ ~(/\ q.target \in DOMAIN watchlists
                  /\ watchlists[q.target].user_id = q.user.id))
            => /\ q.pc = "done"
               /\ q.resp = Resp(404, "Watchlist not found or you don't have permission to edit it")
               /\ IsNone(q.ret)
               /\ watchlists' = watchlists
      ]_vars

\* an update of another owner's watchlist, supplying both fields, got 404
C9_Witness ==
    \E s \in Slots :
        /\ wreq[s].pc = "done"
        /\ wreq[s].op = "update"
        /\ wreq[s].resp.status = 404
        /\ wreq[s].target \in DOMAIN watchlists
        /\ watchlists[wreq[s].target].user_id # wreq[s].user.id
        /\ ~IsNone(wreq[s].name)
        /\ ~IsNone(wreq[s].symbols)

\* C10 (SpecWatchSeq): an update request writes the store in one step only,
\* and only when the patch supplies a field; that step leaves the target's
\* id and owner, every omitted field and every other watchlist unchanged and
\* sets the supplied fields.  With nothing supplied there is no write and the
\* record as stored is returned.
C10_UpdateFrame ==
    [][\A s \in Slots :
        LET r == wreq[s]
            q == wreq'[s]
            t == r.target
        IN  /\ (r # q /\ (r.op = "update" \/ q.op = "update")
                      /\ r.pc # "u_write") => watchlists' = watchlists
            /\ (r # q /\ r.pc = "u_write") =>
                /\ ~(IsNone(r.name) /\ IsNone(r.symbols))
                /\ DOMAIN watchlists' = DOMAIN watchlists
                /\ \A i \in DOMAIN watchlists :
                      i # t => watchlists'[i] = watchlists[i]
                /\ watchlists'[t].user_id = watchlists[t].user_id
                /\ watchlists'[t].name =
                      IF IsNone(r.name) THEN watchlists[t].name ELSE r.name[1]
                /\ watchlists'[t].symbols =
                      IF IsNone(r.symbols) THEN watchlists[t].symbols
                      ELSE r.symbols[1]
            /\ (/\ r.pc = "idle"
                /\ q.op = "update"
                /\ q.user.kind = "user"
                /\ q.target \in DOMAIN watchlists
                /\ watchlists[q.target].user_id = q.user.id
                /\ IsNone(q.name)
                /\ IsNone(q.symbols))
               => /\ q.pc = "done"
                  /\ q.resp.status = 200
                  /\ q.ret = Some([id |-> q.target,
                                   name |-> watchlists[q.target].name,
                                   symbols |-> watchlists[q.target].symbols,
                                   user_id |-> watchlists[q.target].user_id])
      ]_vars

\* an update supplying only the name has renamed a watchlist whose symbols,
\* not empty, are still in place
C10_Witness ==
    \E s \in Slots :
        /\ wreq[s].pc = "done"
        /\ wreq[s].op = "update"
        /\ wreq[s].resp = Resp(200, "updated")
        /\ ~IsNone(wreq[s].name)
        /\ IsNone(wreq[s].symbols)
        /\ watchlists[wreq[s].target].name = wreq[s].name[1]
        /\ watchlists[wreq[s].target].symbols # <<>>
        /\ Len(watchlists) = 2

----------------------------------------------------------------------------
(* Claims about the stock handlers, checked under SpecStock *)

\* C2: a sync request for which the provider returns an empty series is
\* answered 404, not 500, and writes no bar.
C2_EmptySeriesNotFound ==
    [][\A s \in Slots :
        (sreq[s].pc = "idle" /\ sreq'[s].got = "empty") =>
            /\ sreq'[s].pc = "done"
            /\ sreq'[s].resp.status = 404
            /\ stocks' = stocks
      ]_vars

\* the rows first..last of an order of the store's bars
Slice(store, o, first, last) ==
    [k \in 1..(IF last < first THEN 0 ELSE last - first + 1) |->
        store[o[first + k - 1]]]

\* C5: a list request with a valid sort field and direction, page p >= 1 and
\* page size s within bounds, over n matching bars, answers without error
\* with total = n, total_pages = ceil(n / s) (0 when n = 0) and as data the
\* bars at positions (p-1)*s+1 .. min(p*s, n) in the requested sort order.
C5_ListPage ==
    (/\ lreq.pc = "done"
     /\ lreq.sort_by \in {"date", "symbol", "open", "high", "low", "close", "volume"}
     /\ lreq.sort_order \in {"asc", "desc"}
     /\ lreq.page >= 1
     /\ lreq.page_size >= 1
     /\ lreq.page_size <= PAGE_SIZE_MAX)
    => LET S == {i \in DOMAIN stocks :
                    \/ IsNone(lreq.symbol)
                    \/ stocks[i].symbol = Upper(lreq.symbol[1])}
           n == Cardinality(S)
           p == lreq.page
           sz == lreq.page_size
           last == IF p * sz < n THEN p * sz ELSE n
       IN  /\ lreq.resp.status = 200
           /\ ~IsNone(lreq.out)
           /\ lreq.out[1].total = n
           /\ lreq.out[1].total_pages =
                 (IF n = 0 THEN 0 ELSE (n + sz - 1) \div sz)
           /\ \E o \in SortedOrders(stocks, S, lreq.sort_by, lreq.sort_order) :
                 lreq.out[1].data = Slice(stocks, o, (p - 1) * sz + 1, last)

\* What get_stocks has computed when it builds its response: the count, the
\* page count and the page read are those C5 describes.
ListQueryComputed ==
    lreq.pc = "done" /\ lreq.resp.status \in {200, 500} =>
       LET S == Matching(stocks, FilterQuery(lreq.symbol))
           n == Cardinality(S)
           p == lreq.page
           sz == lreq.page_size
           last == IF p * sz < n THEN p * sz ELSE n
       IN  /\ lreq.total = n
           /\ lreq.total_pages = (IF n = 0 THEN 0 ELSE (n + sz - 1) \div sz)
           /\ \E o \in SortedOrders(stocks, S, lreq.sort_by, lreq.sort_order) :
                 lreq.rows = Slice(stocks, o, (p - 1) * sz + 1, last)

----------------------------------------------------------------------------
(* Claims about the bar collection under overlapping syncs, checked under
   SpecStockConc *)

\* sync request s has written the row at the head of its frame in this step
RowWritten(s) ==
    /\ sreq[s].pc \in {"s_upsert", "s_insert"}
    /\ sreq'[s].pc \in {"s_upsert", "done"}
    /\ sreq'[s].rows # sreq[s].rows

\* C11: after every upsert of a sync request, repeated or overlapping, the
\* bar collection holds exactly one bar for the (symbol, date) pair of the
\* row written, and that bar carries the values of this latest upsert.
C11_OneBarLatestValues ==
    [][\A s \in Slots :
          RowWritten(s) =>
             LET doc == Document(sreq[s].symbol, Head(sreq[s].rows))
                 m == MatchBar(stocks', doc.symbol, doc.date)
             IN  /\ Cardinality(m) = 1
                 /\ \A i \in m : stocks'[i] = doc]_vars

----------------------------------------------------------------------------
(* Claims about the periodic sync job, checked under SpecCron *)

\* the symbols of the sync requests issued so far, in order
PostedSymbols == [i \in DOMAIN cposts |-> cposts[i].symbol]

\* C12: a run of cron_sync.main always terminates. With the token
\* configured, the requests issued so far are at every moment the symbols
\* get_all_unique_symbols returned up to the loop's position, one request
\* each, in that order, whatever the outcomes; when the run has ended there
\* is exactly one request per returned symbol. The returned list is the
\* store's distinct symbols, or the empty list when the store connection or
\* query failed, and then no request is issued.
C12_CronRun ==
    /\ <>(cpc = "done")
    /\ [](HeaderTruthy(CRON_AUTH_TOKEN) =>
            /\ Len(PostedSymbols) <= Len(symbols_to_sync)
            /\ PostedSymbols = SubSeq(symbols_to_sync, 1, Len(PostedSymbols))
            /\ crest = SubSeq(symbols_to_sync, Len(PostedSymbols) + 1,
                              Len(symbols_to_sync))
            /\ \A i \in DOMAIN cposts :
                  /\ cposts[i].api_key = CRON_AUTH_TOKEN[1]
                  /\ cposts[i].period = "5d"
            /\ cpc = "done" => PostedSymbols = symbols_to_sync
            /\ cfetch = "ok" => symbols_to_sync \in DistinctSymbols(stocks)
            /\ cfetch = "failed" => symbols_to_sync = <<>> /\ cposts = <<>>
            /\ cfetch = "none" => cposts = <<>>)

\* a run over two symbols has ended: the first request failed with an error
\* status, the second was still issued, and its transport failed
C12_Witness ==
    /\ cpc = "done"
    /\ HeaderTruthy(CRON_AUTH_TOKEN)
    /\ cfetch = "ok"
    /\ Len(symbols_to_sync) = 2
    /\ Len(cposts) = 2
    /\ cposts[1].outcome = "HTTPStatusError"
    /\ cposts[2].outcome = "RequestError"

----------------------------------------------------------------------------
(* Claims about symbols written and symbols filtered, checked under
   SpecStock *)

\* C13: when a sync request for symbol s has succeeded, every bar stored
\* under s is matched by the filter the list operation builds for the
\* symbol filter s, whatever the case of s.
C13_SyncedBarsMatchOwnSymbol ==
    \A s \in Slots :
        (sreq[s].pc = "done" /\ sreq[s].resp.status = 200) =>
            \A i \in DOMAIN stocks :
                stocks[i].symbol = sreq[s].symbol =>
                    i \in Matching(stocks, FilterQuery(Some(sreq[s].symbol)))

====
